---- MODULE Spec2Model ----
(***************************************************************************)
(* A model of the cache / dispatch core of astrbot_plugin_web_analyzer:    *)
(*   - CacheManager (src/cache.py): the in-memory dict, the content-hash   *)
(*     map, the preload set and the two files per key on disk;             *)
(*   - the batch dispatcher _batch_process_urls and the entry points that  *)
(*     start pipelines (src/main.py);                                      *)
(*   - the pipeline _process_single_url with its cache check and cache     *)
(*     update (src/main.py).                                               *)
(* Python dicts keep insertion order, so memory_cache is a sequence of     *)
(* entries.  An optional value is a sequence of length 0 or 1.             *)
(***************************************************************************)
EXTENDS Integers, Sequences, FiniteSets, TLC

VARIABLES
    \* ---- CacheManager (src/cache.py) ----
    mgr,                \* "up": constructed; "failed": __init__ raised
    now,                \* time.time()
    memory_cache,       \* self.memory_cache, in insertion order
    content_hash_map,   \* self.content_hash_map: digest -> url
    preload_urls,       \* self.preload_urls
    files,              \* <md5(url)>.json in cache_dir, by url
    shots,              \* <md5(url)>_screenshot.bin in cache_dir, by url
    preload_enabled,    \* self.preload_enabled
    last,               \* the last CacheManager call: arguments, outcome
    stored,             \* what set_with_content_hash stored under
                        \* TrackedHash, kept while that url stays in memory
    \* ---- dispatcher (src/main.py) ----
    processing_urls,    \* self.processing_urls
    cfg,                \* max_concurrency, dynamic_concurrency,
                        \* enable_priority_scheduling
    call,               \* per handler running _batch_process_urls: where
                        \* it is, filtered_urls, the tasks of its window
    tool,               \* per analyze_webpage_with_decision_tool call
    orphans,            \* per url, the pipeline tasks still running after
                        \* the gather that started them has raised
    \* ---- pipeline (src/main.py) ----
    enable_cache,       \* self.enable_cache
    pipe                \* per _process_single_url invocation: where it is,
                        \* its url, and what its last run returned and did

cacheVars == <<mgr, now, memory_cache, content_hash_map, preload_urls,
               files, shots, preload_enabled, last, stored>>
dispVars == <<processing_urls, cfg, call, tool, orphans>>
pipeVars == <<enable_cache, pipe>>
vars == <<mgr, now, memory_cache, content_hash_map, preload_urls, files,
          shots, preload_enabled, last, stored, processing_urls, cfg, call,
          tool, orphans, enable_cache, pipe>>

-----------------------------------------------------------------------------
(* Bounds and configuration of the cache model *)

\* the clock runs from 0 to MaxTime
MaxTime == 2
\* self.max_size, scaled down
MaxSize == 1
\* self.expire_time in clock ticks, scaled down
Ttl == 2
\* self.preload_count, scaled down; the plugin allows it above max_size
PreloadCount == 2

Keys == {"ka", "kb"}
\* digests of page texts: get_by_content_hash is called with any of them,
\* set_with_content_hash with those of StoredHashes
Hashes == {"h1", "h2", "h3"}
StoredHashes == {"h1", "h2"}
TrackedHash == "h1"
NoKey == "nokey"
NoHash == "nohash"
NoFile == "nofile"

\* A result dict.  screenshot is "null" (None), "absent" (no such key) or
\* the bytes; has_screenshot is the marker key (absent reads as False).
PlainPayload == [text |-> "t1", screenshot |-> "null", has_screenshot |-> FALSE]
ShotPayload == [text |-> "t2", screenshot |-> "png", has_screenshot |-> FALSE]
Payloads == {PlainPayload, ShotPayload}

IsBytes(s) == s \notin {"null", "absent"}

-----------------------------------------------------------------------------
(* dict helpers *)

HasKey(m, u) == \E i \in 1..Len(m) : m[i].url = u
Entry(m, u) == m[CHOOSE i \in 1..Len(m) : m[i].url = u]
KeysOf(m) == {m[i].url : i \in 1..Len(m)}
IndexOf(m, u) == CHOOSE i \in 1..Len(m) : m[i].url = u

\* d[url] = e: an existing key keeps its place, a new key goes last
DictPut(m, e) ==
    IF HasKey(m, e.url)
    THEN [i \in 1..Len(m) |-> IF m[i].url = e.url THEN e ELSE m[i]]
    ELSE Append(m, e)

DictDel(m, u) == SelectSeq(m, LAMBDA e : e.url # u)

\* The state of one CacheManager and its directory, as a record
CacheState ==
    [memory_cache |-> memory_cache, content_hash_map |-> content_hash_map,
     preload_urls |-> preload_urls, files |-> files, shots |-> shots]

-----------------------------------------------------------------------------
(* CacheManager *)

\* the expiry test with <= for <
FreshInclusive(ts, t) == t - ts <= Ttl

\* the expiry test of get, _cleanup and get_stats
Fresh(ts, t) == t - ts < Ttl

\* _remove_cache_from_disk
RemoveCacheFromDisk(c, url) ==
    [c EXCEPT !.files[url] = <<>>, !.shots[url] = NoFile]

\* delete that leaves the url in preload_urls
DeleteKeepPreload(c, url) ==
    IF HasKey(c.memory_cache, url)
    THEN LET d == RemoveCacheFromDisk(
                    [c EXCEPT !.memory_cache = DictDel(@, url)], url)
         IN [d EXCEPT !.content_hash_map =
                          [h \in Hashes |-> IF @[h] = url THEN NoKey ELSE @[h]]]
    ELSE c

\* delete
Delete(c, url) ==
    IF HasKey(c.memory_cache, url)
    THEN LET d == RemoveCacheFromDisk(
                    [c EXCEPT !.memory_cache = DictDel(@, url)], url)
         IN [d EXCEPT !.preload_urls = @ \ {url},
                      !.content_hash_map =
                          [h \in Hashes |-> IF @[h] = url THEN NoKey ELSE @[h]]]
    ELSE c

RECURSIVE DeleteEach(_, _)
\* for url in urls: self.delete(url)
DeleteEach(c, urls) ==
    IF urls = <<>> THEN c
    ELSE DeleteEach(Delete(c, Head(urls)), Tail(urls))

\* list.insert keeping equal timestamps in arrival order
InsertByTimestamp(s, e) ==
    LET k == Cardinality({i \in 1..Len(s) : s[i].timestamp <= e.timestamp})
    IN SubSeq(s, 1, k) \o <<e>> \o SubSeq(s, k + 1, Len(s))

RECURSIVE SortedByTimestamp(_)
\* sorted(memory_cache.keys(), key=timestamp): a stable sort
SortedByTimestamp(m) ==
    IF m = <<>> THEN <<>>
    ELSE InsertByTimestamp(SortedByTimestamp(SubSeq(m, 1, Len(m) - 1)), m[Len(m)])

UrlsOf(s) == [i \in 1..Len(s) |-> s[i].url]

\* the urls _cleanup collects as expired, in dict order
ExpiredUrls(m, t) == UrlsOf(SelectSeq(m, LAMBDA e : ~Fresh(e.timestamp, t)))

\* eviction in dict order, without the sort by timestamp
EvictedUrlsUnsorted(m) ==
    IF Len(m) > MaxSize
    THEN SubSeq(UrlsOf(m), 1, Len(m) - MaxSize)
    ELSE <<>>

\* the urls _cleanup evicts for capacity: sorted_urls[: len - max_size]
EvictedUrls(m) ==
    IF Len(m) > MaxSize
    THEN SubSeq(UrlsOf(SortedByTimestamp(m)), 1, Len(m) - MaxSize)
    ELSE <<>>

\* a cleanup that counts the excess before the expired entries are deleted
CleanupCountFirst(c, t) ==
    LET n == Len(c.memory_cache)
        c1 == DeleteEach(c, ExpiredUrls(c.memory_cache, t))
        sorted == UrlsOf(SortedByTimestamp(c1.memory_cache))
        excess == IF n > MaxSize THEN n - MaxSize ELSE 0
    IN DeleteEach(c1, SubSeq(sorted, 1, IF excess < Len(sorted) THEN excess
                                        ELSE Len(sorted)))

\* _cleanup
Cleanup(c, t) ==
    LET c1 == DeleteEach(c, ExpiredUrls(c.memory_cache, t))
    IN DeleteEach(c1, EvictedUrls(c1.memory_cache))

\* what _save_cache_to_disk serializes: bytes leave the JSON, a marker enters
ToJson(result) ==
    IF IsBytes(result.screenshot)
    THEN [result EXCEPT !.screenshot = "absent", !.has_screenshot = TRUE]
    ELSE result

\* _save_cache_to_disk.  outcome: "ok"; "fail_open" (the first open raises,
\* nothing is written); "fail_dump" (the side-file is written, the primary
\* file is left truncated).  Both failures raise CacheWriteError.
SaveCacheToDisk(c, cache_data, outcome, t) ==
    LET url == cache_data.url
        withShot == IF IsBytes(cache_data.result.screenshot)
                    THEN [c EXCEPT !.shots[url] = cache_data.result.screenshot]
                    ELSE c
    IN CASE outcome = "fail_open" -> c
         [] outcome = "fail_dump" ->
                [withShot EXCEPT !.files[url] =
                    <<[corrupt |-> TRUE, mtime |-> t, data |-> <<>>]>>]
         [] OTHER ->
                [withShot EXCEPT !.files[url] =
                    <<[corrupt |-> FALSE, mtime |-> t,
                       data |-> <<[cache_data EXCEPT !.result = ToJson(@)]>>]>>]

\* set that takes the entry out of memory_cache again when the write fails
SetRollback(c, url, result, outcome, t) ==
    LET cache_data == [url |-> url, timestamp |-> t, result |-> result]
        c1 == [c EXCEPT !.memory_cache = DictPut(@, cache_data)]
        c2 == SaveCacheToDisk(c1, cache_data, outcome, t)
    IN IF outcome = "ok"
       THEN [st |-> Cleanup(c2, t), raised |-> FALSE]
       ELSE [st |-> [c2 EXCEPT !.memory_cache = DictDel(@, url)], raised |-> TRUE]

\* set: returns the new state and whether CacheWriteError was raised
Set(c, url, result, outcome, t) ==
    LET cache_data == [url |-> url, timestamp |-> t, result |-> result]
        c1 == [c EXCEPT !.memory_cache = DictPut(@, cache_data)]
        c2 == SaveCacheToDisk(c1, cache_data, outcome, t)
    IN IF outcome = "ok"
       THEN [st |-> Cleanup(c2, t), raised |-> FALSE]
       ELSE [st |-> c2, raised |-> TRUE]

\* set_with_content_hash that keeps an existing mapping of the digest
SetWithContentHashKeepFirst(c, url, result, h, outcome, t) ==
    LET r == Set(c, url, result, outcome, t)
    IN IF r.raised \/ c.content_hash_map[h] # NoKey THEN r
       ELSE [r EXCEPT !.st.content_hash_map[h] = url]

\* set_with_content_hash: the map is written after set returns
SetWithContentHash(c, url, result, h, outcome, t) ==
    LET r == Set(c, url, result, outcome, t)
    IN IF r.raised THEN r
       ELSE [r EXCEPT !.st.content_hash_map[h] = url]

\* get: returns the new state and the result (<<>> is None)
Get(c, url, t) ==
    IF HasKey(c.memory_cache, url)
    THEN IF Fresh(Entry(c.memory_cache, url).timestamp, t)
         THEN [st |-> c, ret |-> <<Entry(c.memory_cache, url).result>>]
         ELSE [st |-> Delete(c, url), ret |-> <<>>]
    ELSE [st |-> c, ret |-> <<>>]

\* get_by_content_hash
GetByContentHash(c, h, t) ==
    IF c.content_hash_map[h] # NoKey
    THEN Get(c, c.content_hash_map[h], t)
    ELSE [st |-> c, ret |-> <<>>]

\* get_stats
GetStats(c, t) ==
    LET valid == {i \in 1..Len(c.memory_cache) :
                     Fresh(c.memory_cache[i].timestamp, t)}
    IN [total |-> Len(c.memory_cache),
        valid |-> Cardinality(valid),
        expired |-> Len(c.memory_cache) - Cardinality(valid)]

\* clear that removes the .json files only
ClearKeepShots(c) ==
    [memory_cache |-> <<>>,
     content_hash_map |-> [h \in Hashes |-> NoKey],
     preload_urls |-> {},
     files |-> [k \in Keys |-> <<>>],
     shots |-> c.shots]

\* clear
Clear(c) ==
    [memory_cache |-> <<>>,
     content_hash_map |-> [h \in Hashes |-> NoKey],
     preload_urls |-> {},
     files |-> [k \in Keys |-> <<>>],
     shots |-> [k \in Keys |-> NoFile]]

\* _load_screenshot_for_cache that leaves the has_screenshot marker
LoadScreenshotKeepMarker(c, url, result) ==
    IF c.shots[url] # NoFile
    THEN [result EXCEPT !.screenshot = c.shots[url]]
    ELSE result

\* _load_screenshot_for_cache
LoadScreenshotForCache(c, url, result) ==
    IF c.shots[url] # NoFile
    THEN [result EXCEPT !.screenshot = c.shots[url], !.has_screenshot = FALSE]
    ELSE result

\* a load that stamps the entry anew
LoadedEntryRestamped(c, k) ==
    LET data == c.files[k][1].data[1]
    IN IF data.result.has_screenshot
       THEN [data EXCEPT !.result = LoadScreenshotForCache(c, data.url, @),
                         !.timestamp = MaxTime]
       ELSE [data EXCEPT !.timestamp = MaxTime]

\* the cache_data _load_single_cache_file and _preload_cache put in memory
LoadedEntry(c, k) ==
    LET data == c.files[k][1].data[1]
    IN IF data.result.has_screenshot
       THEN [data EXCEPT !.result = LoadScreenshotForCache(c, data.url, @)]
       ELSE data

\* _get_sorted_cache_files: newest first; os.listdir fixes the order of
\* files with equal mtime, and any order is possible
SortedCacheFiles(c) ==
    LET present == {k \in Keys : c.files[k] # <<>>}
        n == Cardinality(present)
    IN {s \in [1..n -> present] :
          /\ \A i, j \in 1..n : i # j => s[i] # s[j]
          /\ \A i, j \in 1..n :
                i < j => c.files[s[i]][1].mtime >= c.files[s[j]][1].mtime}

RECURSIVE LoadCacheFromDisk(_, _)
\* _load_cache_from_disk over cache_files[:max_size]: a corrupt file is
\* removed and CacheReadError raised, which ends the construction
LoadCacheFromDisk(c, cache_files) ==
    IF cache_files = <<>> THEN [st |-> c, raised |-> FALSE]
    ELSE LET k == Head(cache_files)
         IN IF c.files[k][1].corrupt
            THEN [st |-> [c EXCEPT !.files[k] = <<>>], raised |-> TRUE]
            ELSE LoadCacheFromDisk(
                    [c EXCEPT !.memory_cache = DictPut(@, LoadedEntry(c, k))],
                    Tail(cache_files))

RECURSIVE PreloadCache(_, _)
\* _preload_cache over cache_files[:preload_count]: a corrupt file is
\* removed and the loop goes on
PreloadCache(c, cache_files) ==
    IF cache_files = <<>> THEN c
    ELSE LET k == Head(cache_files)
         IN IF c.files[k][1].corrupt
            THEN PreloadCache([c EXCEPT !.files[k] = <<>>], Tail(cache_files))
            ELSE PreloadCache(
                    [c EXCEPT !.memory_cache = DictPut(@, LoadedEntry(c, k)),
                              !.preload_urls = @ \cup {LoadedEntry(c, k).url}],
                    Tail(cache_files))

Take(s, n) == SubSeq(s, 1, IF n < Len(s) THEN n ELSE Len(s))

\* __init__ over a directory; order is what _get_sorted_cache_files returns
Construct(dirFiles, dirShots, order, preload) ==
    LET c0 == [memory_cache |-> <<>>,
               content_hash_map |-> [h \in Hashes |-> NoKey],
               preload_urls |-> {},
               files |-> dirFiles, shots |-> dirShots]
        r == LoadCacheFromDisk(c0, Take(order, MaxSize))
    IN IF r.raised THEN r
       ELSE IF preload
            THEN [st |-> PreloadCache(r.st, Take(order, PreloadCount)),
                  raised |-> FALSE]
            ELSE r

-----------------------------------------------------------------------------
(* The pipeline _process_single_url: data and pure steps *)

\* the _process_single_url invocations: one at a time (overlapping ones are
\* the subject of the dispatcher)
Workers == {"w1"}

\* Page urls as urlparse splits them.  The first two are spellings of one
\* page; Keys names their normalized forms: "ka" is http://www.a.com/x and
\* "kb" is http://www.b.com
PageUrls ==
    {[scheme |-> "HTTP", netloc |-> "A.com", path |-> "/x/"],
     [scheme |-> "http", netloc |-> "www.a.com", path |-> "/x"],
     [scheme |-> "http", netloc |-> "b.com", path |-> ""]}
NoUrl == [scheme |-> "", netloc |-> "", path |-> ""]

\* str.lower() on the strings of PageUrls
Lower(str) ==
    CASE str = "HTTP" -> "http"
      [] str = "A.com" -> "a.com"
      [] OTHER -> str

\* path.rstrip("/") on the paths of PageUrls
RstripSlash(path) == IF path = "/x/" THEN "/x" ELSE path

\* self.enable_unified_domain, at its default
enable_unified_domain == TRUE

\* _normalize_netloc: a dotted host name without "www." gets the prefix
NormalizeNetloc(netloc, unified) ==
    IF ~unified \/ netloc = "" THEN netloc
    ELSE IF netloc \in {"www.a.com", "www.b.com"} THEN netloc
    ELSE CASE netloc = "a.com" -> "www.a.com"
           [] netloc = "b.com" -> "www.b.com"
           [] OTHER -> netloc

\* normalize_url
NormalizeUrl(url, unified) ==
    [scheme |-> Lower(url.scheme),
     netloc |-> NormalizeNetloc(Lower(url.netloc), unified),
     path |-> RstripSlash(url.path)]

\* the cache key of a normalized url
UrlKey(n) ==
    CASE n = [scheme |-> "http", netloc |-> "www.a.com", path |-> "/x"] -> "ka"
      [] n = [scheme |-> "http", netloc |-> "www.b.com", path |-> ""] -> "kb"
      [] OTHER -> NoKey

\* content_data["content"]: the text of the page, which may be empty
Contents == {"page", ""}

\* _calculate_content_hash on the texts of Contents
CalculateContentHash(content) == IF content = "page" THEN "h1" ELSE "h2"

\* the dict _process_single_url returns when a step failed
ErrorResult ==
    [text |-> "error_msg", screenshot |-> "null", has_screenshot |-> FALSE]

\* _check_cache that never finds anything
CheckCacheDisabled(c, enabled, url, t) == [st |-> c, ret |-> <<>>]

\* _check_cache
CheckCache(c, enabled, url, t) ==
    IF ~enabled THEN [st |-> c, ret |-> <<>>]
    ELSE Get(c, UrlKey(NormalizeUrl(url, enable_unified_domain)), t)

\* _update_cache
UpdateCache(c, enabled, url, result, content, outcome, t) ==
    LET normalized_url == UrlKey(NormalizeUrl(url, enable_unified_domain))
    IN IF ~enabled THEN [st |-> c, raised |-> FALSE]
       ELSE IF content # ""
       THEN SetWithContentHash(c, normalized_url, result,
                               CalculateContentHash(content), outcome, t)
       ELSE Set(c, normalized_url, result, outcome, t)

\* pipe[w]: pc is "idle" or "collab" (between the cache check and the cache
\* update, while the collaborators run); the other fields describe the run
\* that returned last: what it returned, whether that came from the cache,
\* whether all collaborators returned, whether _update_cache returned,
\* whether its last step changed the entry or the content index of its url.
\* produced_at is kept from run to run: per normalized url, when a run that
\* had missed last returned result_data for it (-1: never)
IdlePipe ==
    [pc |-> "idle", url |-> NoUrl, ret |-> <<>>, hit |-> FALSE,
     produced |-> FALSE, updated |-> FALSE, changed |-> FALSE,
     produced_at |-> [k \in Keys |-> -1]]

PipeIdle ==
    /\ enable_cache = TRUE
    /\ pipe = [w \in Workers |-> IdlePipe]

-----------------------------------------------------------------------------
(* The CacheManager as a state machine *)

\* last: the call that was made last, what it returned, whether a lookup
\* found its entry expired, and for a set how many urls the capacity phase
\* of _cleanup evicted.  A delete or a restart that directly follows a set
\* that returned keeps that set's arguments.
NoCall ==
    [op |-> "none", url |-> NoKey, hash |-> NoHash, payload |-> <<>>,
     ret |-> <<>>, raised |-> FALSE, expired |-> FALSE, evicted |-> 0]

\* the lookup of u removes an entry because it is expired
FindsExpired(u) ==
    /\ u # NoKey
    /\ HasKey(memory_cache, u)
    /\ ~HasKey(Get(CacheState, u, now).st.memory_cache, u)

Install(c) ==
    /\ memory_cache' = c.memory_cache
    /\ content_hash_map' = c.content_hash_map
    /\ preload_urls' = c.preload_urls
    /\ files' = c.files
    /\ shots' = c.shots

SetOps == {"set", "set_with_content_hash"}

\* the set (or set_with_content_hash) of url u that has just returned, if any
JustSet(u) == last.op \in SetOps /\ last.url = u /\ ~last.raised

\* stored: the url and result of the last set_with_content_hash under
\* TrackedHash that returned, for as long as that url stays in memory;
\* intact until the url is written again, the digest is mapped to another
\* url or the manager is constructed anew
KeepWhileInMemory(a, m) ==
    IF a # <<>> /\ a[1].url \in KeysOf(m) THEN a ELSE <<>>

Written(a, u) ==
    IF a # <<>> /\ a[1].url = u THEN <<[a[1] EXCEPT !.intact = FALSE]>> ELSE a

EmptyDir == [files |-> [k \in Keys |-> <<>>], shots |-> [k \in Keys |-> NoFile]]

\* a directory left by an earlier run that had a larger max_size
FullDir ==
    [files |-> [k \in Keys |->
                  <<[corrupt |-> FALSE, mtime |-> 0,
                     data |-> <<[url |-> k, timestamp |-> 0,
                                 result |-> PlainPayload]>>]>>],
     shots |-> [k \in Keys |-> NoFile]]

InitDirs == {EmptyDir, FullDir}

-----------------------------------------------------------------------------
(* The batch dispatcher of main.py: data and pure steps *)

\* largest max_concurrency the configurations of the model use
MaxConcurrency == 3
\* most pipeline tasks left running by gathers that raised
MaxOrphans == 1

\* handlers that reach _batch_process_urls, and callers of the decision tool
Callers == {"d1", "d2"}
ToolCallers == {"t1"}

\* normalized urls: a video site, two news sites, a tech site and a long
\* path on another site
Urls == {"bilibili", "sina", "other", "github", "bbc"}
ToolUrls == {"sina"}
Batches == {<<"bilibili", "sina", "other">>, <<"sina", "bilibili">>, <<"other">>}

Range(s) == {s[i] : i \in 1..Len(s)}
Min(a, b) == IF a < b THEN a ELSE b
Max(a, b) == IF a > b THEN a ELSE b

\* what urlparse gives get_url_priority for each url of the model
UrlFeatures(url) ==
    [short_path |-> url # "other",
     news |-> url \in {"sina", "bbc"},
     tech |-> url = "github",
     video |-> url = "bilibili"]

\* WebAnalyzerUtils.get_url_priority
GetUrlPriority(url) ==
    LET f == UrlFeatures(url)
        priority == 5 + (IF f.short_path THEN 2 ELSE 0)
                      + (IF f.news THEN 3 ELSE 0)
                      + (IF f.tech THEN 2 ELSE 0)
                      - (IF f.video THEN 2 ELSE 0)
    IN Max(1, Min(10, priority))

\* an insertion that puts a url ahead of the urls of equal priority
InsertByPriorityUnstable(s, url) ==
    LET ahead == {i \in 1..Len(s) : GetUrlPriority(s[i]) > GetUrlPriority(url)}
        n == IF ahead = {} THEN 0 ELSE CHOOSE i \in ahead : \A j \in ahead : j <= i
    IN SubSeq(s, 1, n) \o <<url>> \o SubSeq(s, n + 1, Len(s))

\* sorted(filtered_urls, key=priority, reverse=True): stable
InsertByPriority(s, url) ==
    LET ahead == {i \in 1..Len(s) : GetUrlPriority(s[i]) >= GetUrlPriority(url)}
        n == IF ahead = {} THEN 0 ELSE CHOOSE i \in ahead : \A j \in ahead : j <= i
    IN SubSeq(s, 1, n) \o <<url>> \o SubSeq(s, n + 1, Len(s))

RECURSIVE SortedByPriority(_)
SortedByPriority(urls) ==
    IF urls = <<>> THEN <<>>
    ELSE InsertByPriority(SortedByPriority(SubSeq(urls, 1, Len(urls) - 1)),
                          urls[Len(urls)])

\* the admission loop that admits every url, in flight or not
FilterUrlsNoCheck(urls, inflight) ==
    [filtered |-> urls, skipped |-> {}, inflight |-> inflight \cup Range(urls)]

\* an admission loop that skips only what the same call already admitted
FilterUrlsLocal(urls, inflight) ==
    LET keep == SelectSeq([i \in 1..Len(urls) |-> i],
                          LAMBDA i : \A j \in 1..(i - 1) : urls[j] # urls[i])
    IN [filtered |-> [k \in 1..Len(keep) |-> urls[keep[k]]],
        skipped |-> {urls[i] : i \in (1..Len(urls)) \ Range(keep)},
        inflight |-> inflight \cup Range(urls)]

\* the admission loop: a url not in processing_urls is appended to
\* filtered_urls and added to processing_urls at once, another is skipped
RECURSIVE FilterUrls(_, _)
FilterUrls(urls, inflight) ==
    IF urls = <<>>
    THEN [filtered |-> <<>>, skipped |-> {}, inflight |-> inflight]
    ELSE LET url == Head(urls)
         IN IF url \notin inflight
            THEN LET r == FilterUrls(Tail(urls), inflight \cup {url})
                 IN [r EXCEPT !.filtered = <<url>> \o @]
            ELSE LET r == FilterUrls(Tail(urls), inflight)
                 IN [r EXCEPT !.skipped = @ \cup {url}]

\* int(n ** 0.5)
IntSqrt(n) == CHOOSE k \in 0..n : k * k <= n /\ (k + 1) * (k + 1) > n

\* a batch size of the square root alone
ConcurrencyWithoutOne(c, n) ==
    IF c.dynamic_concurrency
    THEN Min(c.max_concurrency, Max(1, IntSqrt(n)))
    ELSE c.max_concurrency

\* the batch size of a dispatch of n urls
Concurrency(c, n) ==
    IF c.dynamic_concurrency
    THEN Min(c.max_concurrency, Max(1, IntSqrt(n) + 1))
    ELSE c.max_concurrency

\* windows that start at the first url again
WindowUrlsFromStart(urls, i, batch_size) ==
    IF batch_size >= Len(urls) THEN urls
    ELSE SubSeq(urls, 1, Min(i + batch_size, Len(urls)))

\* filtered_urls[i : i + batch_size], or all of them in one gather
WindowUrls(urls, i, batch_size) ==
    IF batch_size >= Len(urls) THEN urls
    ELSE SubSeq(urls, i + 1, Min(i + batch_size, Len(urls)))

\* a cleanup that removes nothing
RemoveNothing(inflight, urls) == inflight

\* a finally block that empties processing_urls
RemoveEverything(inflight, urls) == {}

\* the finally block: every url of filtered_urls leaves processing_urls
RemoveProcessed(inflight, urls) == inflight \ Range(urls)

\* what a _process_single_url task returned: "ok" for result_data, "error"
\* for an error-shaped result
Outcomes == {"ok", "error"}
NoOutcome == [u \in Urls |-> "none"]

\* the dict _process_single_url returns
ResultOf(url, outcome) ==
    IF outcome = "ok"
    THEN [url |-> url, result |-> "analysis", screenshot |-> "png"]
    ELSE [url |-> url, result |-> "error_msg", screenshot |-> "null"]

\* a gather that drops the error-shaped results
GatheredWithoutErrors(window, outcome) ==
    SelectSeq([k \in 1..Len(window) |-> ResultOf(window[k], outcome[window[k]])],
              LAMBDA r : r.result # "error_msg")

\* what asyncio.gather returns for a window: the results in task order
Gathered(window, outcome) ==
    [k \in 1..Len(window) |-> ResultOf(window[k], outcome[window[k]])]

IdleCall ==
    [pc |-> "idle", urls |-> <<>>, skipped |-> {}, batch_size |-> 0, i |-> 0,
     running |-> {}, started |-> <<>>, outcome |-> NoOutcome,
     results |-> <<>>, exc |-> "none", exit |-> "none"]

IdleTool == [pc |-> "idle", url |-> NoKey]

Configs ==
    [max_concurrency : 1..MaxConcurrency,
     dynamic_concurrency : BOOLEAN,
     enable_priority_scheduling : BOOLEAN]

DispIdle ==
    /\ processing_urls = {}
    /\ cfg = [max_concurrency |-> 1, dynamic_concurrency |-> FALSE,
              enable_priority_scheduling |-> FALSE]
    /\ call = [p \in Callers |-> IdleCall]
    /\ tool = [t \in ToolCallers |-> IdleTool]
    /\ orphans = [u \in Urls |-> 0]

\* CacheManager(...) constructed over one of the initial directories
InitCache ==
    /\ now = 0
    /\ preload_enabled \in BOOLEAN
    /\ \E d \in InitDirs :
         \E order \in SortedCacheFiles(d) :
            LET r == Construct(d.files, d.shots, order, preload_enabled)
            IN /\ mgr = IF r.raised THEN "failed" ELSE "up"
               /\ memory_cache = r.st.memory_cache
               /\ content_hash_map = r.st.content_hash_map
               /\ preload_urls = r.st.preload_urls
               /\ files = r.st.files
               /\ shots = r.st.shots
    /\ last = NoCall
    /\ stored = <<>>
    /\ DispIdle
    /\ PipeIdle

\* time passes
Tick ==
    /\ now < MaxTime
    /\ now' = now + 1
    /\ UNCHANGED <<mgr, memory_cache, content_hash_map, preload_urls, files,
                   shots, preload_enabled, last, stored>>
    /\ UNCHANGED dispVars
    /\ UNCHANGED pipeVars

CallGet(u) ==
    /\ mgr = "up"
    /\ LET r == Get(CacheState, u, now)
       IN /\ Install(r.st)
          /\ last' = [NoCall EXCEPT !.op = "get", !.url = u, !.ret = r.ret,
                                    !.expired = FindsExpired(u)]
          /\ stored' = KeepWhileInMemory(stored, r.st.memory_cache)
    /\ UNCHANGED <<mgr, now, preload_enabled>>
    /\ UNCHANGED dispVars
    /\ UNCHANGED pipeVars

CallGetByContentHash(h) ==
    /\ mgr = "up"
    /\ LET r == GetByContentHash(CacheState, h, now)
       IN /\ Install(r.st)
          /\ last' = [NoCall EXCEPT !.op = "get_by_content_hash", !.hash = h,
                                    !.url = content_hash_map[h], !.ret = r.ret,
                                    !.expired = FindsExpired(content_hash_map[h])]
          /\ stored' = KeepWhileInMemory(stored, r.st.memory_cache)
    /\ UNCHANGED <<mgr, now, preload_enabled>>
    /\ UNCHANGED dispVars
    /\ UNCHANGED pipeVars

\* how many urls the capacity phase of the _cleanup of this set evicts
EvictedBySet(u, p) ==
    LET m1 == DictPut(memory_cache, [url |-> u, timestamp |-> now, result |-> p])
        c1 == DeleteEach([CacheState EXCEPT !.memory_cache = m1],
                         ExpiredUrls(m1, now))
    IN Len(EvictedUrls(c1.memory_cache))

\* whether the expiry phase of the _cleanup within set(u, p) deletes an entry
ExpiredBySet(u, p) ==
    ExpiredUrls(DictPut(memory_cache, [url |-> u, timestamp |-> now, result |-> p]),
                now) # <<>>

CallSet(u, p, outcome) ==
    /\ mgr = "up"
    /\ LET r == Set(CacheState, u, p, outcome, now)
       IN /\ Install(r.st)
          /\ last' = [NoCall EXCEPT !.op = "set", !.url = u, !.payload = <<p>>,
                         !.raised = r.raised,
                         !.expired = ~r.raised /\ ExpiredBySet(u, p),
                         !.evicted = IF r.raised THEN 0 ELSE EvictedBySet(u, p)]
          /\ stored' = KeepWhileInMemory(Written(stored, u), r.st.memory_cache)
    /\ UNCHANGED <<mgr, now, preload_enabled>>
    /\ UNCHANGED dispVars
    /\ UNCHANGED pipeVars

CallSetWithContentHash(u, p, h, outcome) ==
    /\ mgr = "up"
    /\ LET r == SetWithContentHash(CacheState, u, p, h, outcome, now)
           kept == IF r.raised \/ h # TrackedHash
                   THEN Written(stored, u)
                   ELSE <<[url |-> u, result |-> p, intact |-> TRUE]>>
       IN /\ Install(r.st)
          /\ last' = [NoCall EXCEPT !.op = "set_with_content_hash", !.url = u,
                         !.hash = h, !.payload = <<p>>, !.raised = r.raised,
                         !.evicted = IF r.raised THEN 0 ELSE EvictedBySet(u, p)]
          /\ stored' = KeepWhileInMemory(kept, r.st.memory_cache)
    /\ UNCHANGED <<mgr, now, preload_enabled>>
    /\ UNCHANGED dispVars
    /\ UNCHANGED pipeVars

CallDelete(u) ==
    /\ mgr = "up"
    /\ LET c == Delete(CacheState, u)
       IN /\ Install(c)
          /\ last' = [NoCall EXCEPT !.op = "delete", !.url = u,
                         !.hash = IF JustSet(u) THEN last.hash ELSE NoHash,
                         !.payload = IF JustSet(u) THEN last.payload ELSE <<>>]
          /\ stored' = KeepWhileInMemory(stored, c.memory_cache)
    /\ UNCHANGED <<mgr, now, preload_enabled>>
    /\ UNCHANGED dispVars
    /\ UNCHANGED pipeVars

CallClear ==
    /\ mgr = "up"
    /\ Install(Clear(CacheState))
    /\ last' = [NoCall EXCEPT !.op = "clear"]
    /\ stored' = <<>>
    /\ UNCHANGED <<mgr, now, preload_enabled>>
    /\ UNCHANGED dispVars
    /\ UNCHANGED pipeVars

\* the process ends and a new CacheManager is constructed over the directory
Restart ==
    /\ \E order \in SortedCacheFiles(CacheState) :
         LET r == Construct(files, shots, order, preload_enabled)
         IN /\ Install(r.st)
            /\ mgr' = IF r.raised THEN "failed" ELSE "up"
            /\ last' = [NoCall EXCEPT !.op = "restart", !.raised = r.raised,
                           !.url = IF last.op \in SetOps /\ ~last.raised
                                   THEN last.url ELSE NoKey,
                           !.payload = IF last.op \in SetOps /\ ~last.raised
                                       THEN last.payload ELSE <<>>]
            /\ stored' = IF stored # <<>> /\ stored[1].url \in KeysOf(r.st.memory_cache)
                          THEN <<[stored[1] EXCEPT !.intact = FALSE]>> ELSE <<>>
    /\ UNCHANGED <<now, preload_enabled>>
    /\ UNCHANGED dispVars
    /\ UNCHANGED pipeVars

\* one CacheManager from its construction on, without the content-hash
\* calls; a write that fails fails at the first open
NextCache ==
    \/ Tick
    \/ \E u \in Keys : CallGet(u)
    \/ \E u \in Keys, p \in Payloads, o \in {"ok", "fail_open"} : CallSet(u, p, o)
    \/ \E u \in Keys : CallDelete(u)
    \/ CallClear

SpecCache == InitCache /\ [][NextCache]_vars

\* one CacheManager from its construction on, with the content-hash calls;
\* every write succeeds
NextHash ==
    \/ Tick
    \/ \E u \in Keys : CallGet(u)
    \/ \E h \in Hashes : CallGetByContentHash(h)
    \/ \E u \in Keys, p \in Payloads : CallSet(u, p, "ok")
    \/ \E u \in Keys, p \in Payloads, h \in StoredHashes :
          CallSetWithContentHash(u, p, h, "ok")
    \/ \E u \in Keys : CallDelete(u)
    \/ CallClear

SpecHash == InitCache /\ [][NextHash]_vars

\* the directory across restarts, without the content-hash calls
NextStore ==
    \/ Tick
    \/ \E u \in Keys : CallGet(u)
    \/ \E u \in Keys, p \in Payloads, o \in {"ok", "fail_open", "fail_dump"} :
          CallSet(u, p, o)
    \/ \E u \in Keys : CallDelete(u)
    \/ CallClear
    \/ Restart

SpecStore == InitCache /\ [][NextStore]_vars

-----------------------------------------------------------------------------
(* The batch dispatcher of main.py: steps between suspension points *)

\* the plugin with an empty cache and one of the configurations
InitDispatch ==
    /\ now = 0
    /\ preload_enabled = FALSE
    /\ mgr = "up"
    /\ LET r == Construct(EmptyDir.files, EmptyDir.shots, <<>>, FALSE)
       IN /\ memory_cache = r.st.memory_cache
          /\ content_hash_map = r.st.content_hash_map
          /\ preload_urls = r.st.preload_urls
          /\ files = r.st.files
          /\ shots = r.st.shots
    /\ last = NoCall
    /\ stored = <<>>
    /\ processing_urls = {}
    /\ cfg \in Configs
    /\ PipeIdle
    /\ call = [p \in Callers |-> IdleCall]
    /\ tool = [t \in ToolCallers |-> IdleTool]
    /\ orphans = [u \in Urls |-> 0]

InProgress(p) == call[p].pc # "idle"

\* the call has left _batch_process_urls: its record keeps what it admitted
Ended(c, how) ==
    [c EXCEPT !.pc = "idle", !.running = {}, !.started = <<>>,
              !.outcome = NoOutcome, !.results = <<>>, !.exc = "none",
              !.exit = how]

\* _batch_process_urls from its first line to its first suspension: the
\* admission loop, the early return, the sort, WebAnalyzer.__aenter__ (which
\* does not suspend and may raise), the batch size and the first gather
Dispatch(p, urls, enter) ==
    /\ ~InProgress(p)
    /\ LET f == FilterUrls(urls, processing_urls)
           sorted == IF cfg.enable_priority_scheduling
                     THEN SortedByPriority(f.filtered)
                     ELSE f.filtered
           c == [IdleCall EXCEPT !.urls = sorted, !.skipped = f.skipped]
           batch_size == Concurrency(cfg, Len(sorted))
       IN IF f.filtered = <<>>
          THEN /\ enter = "ok"
               /\ call' = [call EXCEPT ![p] = Ended(c, "empty")]
               /\ processing_urls' = f.inflight
          ELSE IF enter = "raise"
          THEN /\ call' = [call EXCEPT ![p] = Ended(c, "raised")]
               /\ processing_urls' = RemoveProcessed(f.inflight, sorted)
          ELSE /\ call' = [call EXCEPT ![p] =
                              [c EXCEPT !.pc = "gather",
                                        !.batch_size = batch_size,
                                        !.started =
                                            <<WindowUrls(sorted, 0, batch_size)>>,
                                        !.running =
                                            Range(WindowUrls(sorted, 0, batch_size))]]
               /\ processing_urls' = f.inflight
    /\ UNCHANGED <<cfg, tool, orphans>>
    /\ UNCHANGED cacheVars
    /\ UNCHANGED pipeVars

\* a return that starts the next window while tasks of this one still run
TaskReturnEager(p, url, outcome) ==
    /\ call[p].pc = "gather"
    /\ url \in call[p].running
    /\ LET c == [call[p] EXCEPT !.outcome[url] = outcome]
           next == c.i + c.batch_size
           results == c.results
                      \o Gathered(WindowUrls(c.urls, c.i, c.batch_size), c.outcome)
       IN call' = [call EXCEPT ![p] =
            IF c.batch_size < Len(c.urls) /\ next < Len(c.urls)
            THEN [c EXCEPT !.i = next,
                           !.started =
                               Append(@, WindowUrls(c.urls, next, c.batch_size)),
                           !.running = (@ \ {url})
                               \cup Range(WindowUrls(c.urls, next, c.batch_size)),
                           !.outcome = NoOutcome,
                           !.results = results]
            ELSE IF c.running # {url}
            THEN [c EXCEPT !.running = @ \ {url}]
            ELSE [c EXCEPT !.pc = "aexit", !.running = {},
                           !.outcome = NoOutcome, !.results = results]]
    /\ UNCHANGED <<processing_urls, cfg, tool, orphans>>
    /\ UNCHANGED cacheVars
    /\ UNCHANGED pipeVars

\* a _process_single_url task of the current window returns its result or
\* an error-shaped one; the gather returns with the last task, its results
\* extend the list, and the next window or __aexit__ starts
TaskReturn(p, url, outcome) ==
    /\ call[p].pc = "gather"
    /\ url \in call[p].running
    /\ LET c == [call[p] EXCEPT !.outcome[url] = outcome]
           next == c.i + c.batch_size
           results == c.results
                      \o Gathered(WindowUrls(c.urls, c.i, c.batch_size), c.outcome)
       IN call' = [call EXCEPT ![p] =
            IF c.running # {url}
            THEN [c EXCEPT !.running = @ \ {url}]
            ELSE IF c.batch_size < Len(c.urls) /\ next < Len(c.urls)
            THEN [c EXCEPT !.i = next,
                           !.started =
                               Append(@, WindowUrls(c.urls, next, c.batch_size)),
                           !.running = Range(WindowUrls(c.urls, next, c.batch_size)),
                           !.outcome = NoOutcome,
                           !.results = results]
            ELSE [c EXCEPT !.pc = "aexit", !.running = {},
                           !.outcome = NoOutcome, !.results = results]]
    /\ UNCHANGED <<processing_urls, cfg, tool, orphans>>
    /\ UNCHANGED cacheVars
    /\ UNCHANGED pipeVars

\* a task raises what _process_single_url does not catch: the gather raises
\* at once and the other tasks of the window keep running
TaskRaise(p, url) ==
    /\ call[p].pc = "gather"
    /\ url \in call[p].running
    /\ LET left == call[p].running \ {url}
           total == Cardinality(left)
                    + Cardinality({u \in Urls : orphans[u] > 0})
       IN /\ total <= MaxOrphans
          /\ \A u \in left : orphans[u] = 0
          /\ orphans' = [u \in Urls |-> IF u \in left THEN 1 ELSE orphans[u]]
    /\ call' = [call EXCEPT ![p] = [@ EXCEPT !.pc = "aexit", !.running = {},
                                              !.outcome = NoOutcome,
                                              !.results = <<>>,
                                              !.exc = "raised"]]
    /\ UNCHANGED <<processing_urls, cfg, tool>>
    /\ UNCHANGED cacheVars
    /\ UNCHANGED pipeVars

\* a task left behind by a gather that raised ends
OrphanEnd(url) ==
    /\ orphans[url] > 0
    /\ orphans' = [orphans EXCEPT ![url] = @ - 1]
    /\ UNCHANGED <<processing_urls, cfg, call, tool>>
    /\ UNCHANGED cacheVars
    /\ UNCHANGED pipeVars

\* the handler is cancelled at its suspension point: in the gather, whose
\* tasks are cancelled before CancelledError reaches __aexit__; in
\* __aexit__ or while sending, from where it reaches the finally block
Cancel(p) ==
    /\ InProgress(p)
    /\ IF call[p].pc = "gather"
       THEN /\ call' = [call EXCEPT ![p] = [@ EXCEPT !.pc = "aexit",
                                                       !.running = {},
                                                       !.outcome = NoOutcome,
                                                       !.results = <<>>,
                                                       !.exc = "cancelled"]]
            /\ UNCHANGED processing_urls
       ELSE /\ call' = [call EXCEPT ![p] = Ended(@, "cancelled")]
            /\ processing_urls' = RemoveProcessed(processing_urls, call[p].urls)
    /\ UNCHANGED <<cfg, tool, orphans>>
    /\ UNCHANGED cacheVars
    /\ UNCHANGED pipeVars

\* WebAnalyzer.__aexit__ ends: sending starts if nothing was raised, else
\* the exception reaches the finally block
AexitEnd(p, outcome) ==
    /\ call[p].pc = "aexit"
    /\ IF call[p].exc = "none" /\ outcome = "ok"
       THEN /\ call' = [call EXCEPT ![p] = [@ EXCEPT !.pc = "send"]]
            /\ UNCHANGED processing_urls
       ELSE /\ call' = [call EXCEPT ![p] =
                           Ended(@, IF call[p].exc = "cancelled"
                                    THEN "cancelled" ELSE "raised")]
            /\ processing_urls' = RemoveProcessed(processing_urls, call[p].urls)
    /\ UNCHANGED <<cfg, tool, orphans>>
    /\ UNCHANGED cacheVars
    /\ UNCHANGED pipeVars

\* _send_analysis_result ends or raises, and the finally block runs
SendEnd(p, outcome) ==
    /\ call[p].pc = "send"
    /\ call' = [call EXCEPT ![p] =
                   Ended(@, IF outcome = "ok" THEN "returned" ELSE "raised")]
    /\ processing_urls' = RemoveProcessed(processing_urls, call[p].urls)
    /\ UNCHANGED <<cfg, tool, orphans>>
    /\ UNCHANGED cacheVars
    /\ UNCHANGED pipeVars

\* analyze_webpage_with_decision_tool up to its await of
\* _process_single_url: processing_urls is neither read nor written
ToolStart(t, url) ==
    /\ tool[t].pc = "idle"
    /\ tool' = [tool EXCEPT ![t] = [pc |-> "pipeline", url |-> url]]
    /\ UNCHANGED <<processing_urls, cfg, call, orphans>>
    /\ UNCHANGED cacheVars
    /\ UNCHANGED pipeVars

\* its pipeline has ended and the rest of the tool has run
ToolEnd(t) ==
    /\ tool[t].pc = "pipeline"
    /\ tool' = [tool EXCEPT ![t] = IdleTool]
    /\ UNCHANGED <<processing_urls, cfg, call, orphans>>
    /\ UNCHANGED cacheVars
    /\ UNCHANGED pipeVars

NextDispatch ==
    \/ \E p \in Callers, urls \in Batches, enter \in {"ok", "raise"} :
          Dispatch(p, urls, enter)
    \/ \E p \in Callers, url \in Urls : TaskReturn(p, url, "ok")
    \/ \E p \in Callers, url \in Urls : TaskRaise(p, url)
    \/ \E url \in Urls : OrphanEnd(url)
    \/ \E p \in Callers : Cancel(p)
    \/ \E p \in Callers, outcome \in {"ok", "raise"} : AexitEnd(p, outcome)
    \/ \E p \in Callers, outcome \in {"ok", "raise"} : SendEnd(p, outcome)
    \/ \E t \in ToolCallers, url \in ToolUrls : ToolStart(t, url)
    \/ \E t \in ToolCallers : ToolEnd(t)

SpecDispatch == InitDispatch /\ [][NextDispatch]_vars

\* one handler dispatching batches of up to five urls, each pipeline
\* returning a result or an error-shaped one
BigBatches ==
    {<<"bilibili", "sina", "other", "github", "bbc">>, <<"other", "bilibili", "github">>}

NextBatch ==
    \/ \E urls \in BigBatches, enter \in {"ok", "raise"} : Dispatch("d1", urls, enter)
    \/ \E url \in Urls, outcome \in Outcomes : TaskReturn("d1", url, outcome)
    \/ \E url \in Urls : TaskRaise("d1", url)
    \/ \E url \in Urls : OrphanEnd(url)
    \/ Cancel("d1")
    \/ \E outcome \in {"ok", "raise"} : AexitEnd("d1", outcome)
    \/ \E outcome \in {"ok", "raise"} : SendEnd("d1", outcome)

SpecBatch == InitDispatch /\ [][NextBatch]_vars

-----------------------------------------------------------------------------
(* The pipeline _process_single_url: steps between suspension points *)

\* the plugin with an empty cache directory, the cache enabled or not
InitPipeline ==
    /\ now = 0
    /\ preload_enabled = FALSE
    /\ mgr = "up"
    /\ LET r == Construct(EmptyDir.files, EmptyDir.shots, <<>>, FALSE)
       IN /\ memory_cache = r.st.memory_cache
          /\ content_hash_map = r.st.content_hash_map
          /\ preload_urls = r.st.preload_urls
          /\ files = r.st.files
          /\ shots = r.st.shots
    /\ last = NoCall
    /\ stored = <<>>
    /\ DispIdle
    /\ enable_cache \in BOOLEAN
    /\ pipe = [w \in Workers |-> IdlePipe]

\* the entry of url in a memory_cache, if any
EntryOf(m, url) == IF HasKey(m, url) THEN <<Entry(m, url)>> ELSE <<>>

\* the digests content_hash_map maps to url
DigestsOf(chm, url) == {h \in Hashes : chm[h] = url}

\* _process_single_url from its first line to its first suspension: the
\* cache check, and on a hit the return of the cached result
PipeStart(w, url) ==
    /\ mgr = "up"
    /\ pipe[w].pc = "idle"
    /\ LET key == UrlKey(NormalizeUrl(url, enable_unified_domain))
           r == CheckCache(CacheState, enable_cache, url, now)
       IN /\ Install(r.st)
          /\ last' = IF enable_cache
                     THEN [NoCall EXCEPT !.op = "get", !.url = key,
                                         !.ret = r.ret,
                                         !.expired = FindsExpired(key)]
                     ELSE last
          /\ stored' = KeepWhileInMemory(stored, r.st.memory_cache)
          /\ pipe' = [pipe EXCEPT ![w] =
                         IF r.ret # <<>>
                         THEN [IdlePipe EXCEPT
                                 !.url = url, !.ret = r.ret, !.hit = TRUE,
                                 !.produced_at = pipe[w].produced_at]
                         ELSE [IdlePipe EXCEPT
                                 !.pc = "collab", !.url = url,
                                 !.produced_at = pipe[w].produced_at]]
    /\ UNCHANGED <<mgr, now, preload_enabled, enable_cache>>
    /\ UNCHANGED dispVars

\* the rest of _process_single_url once the collaborators are done.
\* outcome: "no_html" (the fetch returned nothing), "no_content" (the
\* extraction returned nothing), "raised" (a collaborator raised) or "ok";
\* with "ok", result is result_data, content is content_data["content"] and
\* write is how the disk write of _update_cache goes
PipeEnd(w, outcome, result, content, write) ==
    /\ pipe[w].pc = "collab"
    /\ outcome # "ok" => result = PlainPayload /\ content = "" /\ write = "ok"
    /\ LET url == pipe[w].url
           key == UrlKey(NormalizeUrl(url, enable_unified_domain))
           r == IF outcome = "ok"
                THEN UpdateCache(CacheState, enable_cache, url, result,
                                 content, write, now)
                ELSE [st |-> CacheState, raised |-> FALSE]
           called == outcome = "ok" /\ enable_cache
           h == IF content # "" THEN CalculateContentHash(content) ELSE NoHash
           kept == IF ~called THEN stored
                   ELSE IF r.raised \/ h # TrackedHash
                   THEN Written(stored, key)
                   ELSE <<[url |-> key, result |-> result, intact |-> TRUE]>>
       IN /\ Install(r.st)
          /\ last' = IF called
                     THEN [NoCall EXCEPT
                             !.op = IF content # "" THEN "set_with_content_hash"
                                    ELSE "set",
                             !.url = key, !.hash = h, !.payload = <<result>>,
                             !.raised = r.raised,
                             !.expired = ~r.raised /\ ExpiredBySet(key, result),
                             !.evicted = IF r.raised THEN 0
                                         ELSE EvictedBySet(key, result)]
                     ELSE last
          /\ stored' = KeepWhileInMemory(kept, r.st.memory_cache)
          /\ pipe' = [pipe EXCEPT ![w] =
                         [IdlePipe EXCEPT
                             !.url = url,
                             !.ret = IF outcome = "ok" /\ ~r.raised
                                     THEN <<result>> ELSE <<ErrorResult>>,
                             !.produced = outcome = "ok",
                             !.updated = called /\ ~r.raised,
                             !.changed =
                                 \/ EntryOf(r.st.memory_cache, key)
                                        # EntryOf(memory_cache, key)
                                 \/ DigestsOf(r.st.content_hash_map, key)
                                        # DigestsOf(content_hash_map, key),
                             !.produced_at =
                                 IF outcome = "ok" /\ ~r.raised
                                 THEN [pipe[w].produced_at EXCEPT ![key] = now]
                                 ELSE pipe[w].produced_at]]
    /\ UNCHANGED <<mgr, now, preload_enabled, enable_cache>>
    /\ UNCHANGED dispVars

\* pipeline runs over one CacheManager, one after the other
NextPipeline ==
    \/ Tick
    \/ \E w \in Workers, url \in PageUrls : PipeStart(w, url)
    \/ \E w \in Workers, outcome \in {"no_html", "no_content", "raised", "ok"},
          result \in Payloads, content \in Contents,
          write \in {"ok", "fail_open"} :
          PipeEnd(w, outcome, result, content, write)

SpecPipeline == InitPipeline /\ [][NextPipeline]_vars

-----------------------------------------------------------------------------
(* Properties of the CacheManager *)

EntryAge(u) == now - Entry(memory_cache, u).timestamp

\* what a lookup that reaches get(u) must return and leave behind
LookupContract(u) ==
    LET present == HasKey(memory_cache, u)
    IN /\ (last'.ret # <<>>) <=> (present /\ EntryAge(u) < Ttl)
       /\ last'.ret # <<>> => last'.ret = <<Entry(memory_cache, u).result>>
       /\ (present /\ EntryAge(u) >= Ttl) => ~HasKey(memory_cache', u)

\* C4: get(key), and get_by_content_hash through it, returns the payload
\* exactly when the key is in memory_cache and now - timestamp < expire_time;
\* an entry found at or past the TTL is removed and nothing is returned.
C4_LookupHonoursTtl ==
    [][/\ \A u \in Keys : CallGet(u) => LookupContract(u)
       /\ \A h \in Hashes :
            CallGetByContentHash(h) =>
                IF content_hash_map[h] = NoKey
                THEN last'.ret = <<>>
                ELSE LookupContract(content_hash_map[h])]_vars

\* C4 witness: a content-hash lookup found its entry expired and removed it
C4_ExpiredLookup ==
    /\ last.op = "get_by_content_hash"
    /\ last.expired
    /\ last.ret = <<>>
    /\ ~HasKey(memory_cache, last.url)

\* C5: after any set or set_with_content_hash call, memory_cache holds at
\* most max_size entries.
C5_CapacityAfterSet ==
    last.op \in SetOps => Len(memory_cache) <= MaxSize

\* the dict a set of (u, p) hands to the capacity phase of _cleanup: the new
\* entry put, the entries at or past the TTL gone
BeforeEviction(u, p) ==
    SelectSeq(DictPut(memory_cache, [url |-> u, timestamp |-> now, result |-> p]),
              LAMBDA e : now - e.timestamp < Ttl)

OldestFirst(u, p) ==
    LET live == BeforeEviction(u, p)
        gone == KeysOf(live) \ KeysOf(memory_cache')
        kept == KeysOf(live) \cap KeysOf(memory_cache')
        excess == IF Len(live) > MaxSize THEN Len(live) - MaxSize ELSE 0
    IN /\ Cardinality(gone) = excess
       /\ \A e \in gone, k \in kept :
            /\ Entry(live, e).timestamp <= Entry(live, k).timestamp
            /\ Entry(live, e).timestamp = Entry(live, k).timestamp
                  => IndexOf(live, e) < IndexOf(live, k)

\* C6: when the cleanup of a set evicts for capacity, it deletes exactly the
\* len - max_size unexpired entries with the smallest timestamps: no entry
\* is evicted while a strictly older one is kept, and of two entries with
\* equal timestamps the one earlier in dict order goes first.
C6_EvictsOldestFirst ==
    [][\A u \in Keys, p \in Payloads :
          CallSet(u, p, "ok") => OldestFirst(u, p)]_vars

\* C6 witness: a set has just evicted for capacity
C6_Evicted ==
    /\ last.op = "set"
    /\ ~last.raised
    /\ last.evicted > 0
    /\ Len(memory_cache) = MaxSize

\* C7: every url content_hash_map points at is a key of memory_cache.
C7_NoDanglingContentIndex ==
    \A h \in Hashes :
        content_hash_map[h] # NoKey => HasKey(memory_cache, content_hash_map[h])

StoredIsFresh ==
    /\ stored # <<>>
    /\ HasKey(memory_cache, stored[1].url)
    /\ EntryAge(stored[1].url) < Ttl

\* C8 as stated: after set_with_content_hash(k1, payload, c), while k1 is
\* neither expired nor evicted nor deleted, get_by_content_hash(c) returns
\* payload.
C8_WhileInMemory ==
    StoredIsFresh =>
        GetByContentHash(CacheState, TrackedHash, now).ret = <<stored[1].result>>

\* C8 amended: after a set_with_content_hash(k1, payload, c) that returned,
\* get_by_content_hash(c) returns payload while, in the same CacheManager,
\* k1 is neither expired nor evicted nor deleted nor cleared, k1 has not been
\* written again and c's digest has not been stored under another url; a
\* digest that was never stored is absent.
C8_WhileIntact ==
    /\ (StoredIsFresh /\ stored[1].intact) =>
          GetByContentHash(CacheState, TrackedHash, now).ret = <<stored[1].result>>
    /\ \A h \in Hashes \ StoredHashes :
          GetByContentHash(CacheState, h, now).ret = <<>>

\* C8 witness: a content-hash lookup returned what was stored under it
C8_Hit ==
    /\ last.op = "get_by_content_hash"
    /\ last.hash = TrackedHash
    /\ StoredIsFresh
    /\ stored[1].intact
    /\ last.ret = <<stored[1].result>>

\* C9: after set_with_content_hash(k, payload, X) then delete(k), get(k) and
\* get_by_content_hash(X) return nothing and k is not in preload_urls.
C9_DeletedEverywhere ==
    (last.op = "delete" /\ last.hash # NoHash) =>
        /\ Get(CacheState, last.url, now).ret = <<>>
        /\ GetByContentHash(CacheState, last.hash, now).ret = <<>>
        /\ last.url \notin preload_urls

\* C9 witness: delete(k) directly after set_with_content_hash(k, payload, X)
C9_DeletedAfterStore ==
    /\ last.op = "delete"
    /\ last.hash # NoHash
    /\ last.payload # <<>>
    /\ content_hash_map[last.hash] = NoKey

\* a restart directly after a set of a payload with screenshot bytes that
\* returned, with the entry loaded and within the TTL
RestartedWithShot ==
    /\ last.op = "restart"
    /\ ~last.raised
    /\ last.payload # <<>>
    /\ IsBytes(last.payload[1].screenshot)
    /\ HasKey(memory_cache, last.url)
    /\ EntryAge(last.url) < Ttl

\* a set of a payload with screenshot bytes has just returned and its
\* primary file is on disk
WroteShot ==
    /\ last.op = "set"
    /\ ~last.raised
    /\ IsBytes(last.payload[1].screenshot)
    /\ files[last.url] # <<>>

\* C10: after set(key, payload) with screenshot bytes, a CacheManager built
\* anew over the directory that loads the entry returns from get(key),
\* within the TTL, the original payload: the same bytes and no
\* has_screenshot marker; and the primary file written holds no screenshot.
C10_BinaryRoundTrip ==
    /\ RestartedWithShot => Get(CacheState, last.url, now).ret = last.payload
    /\ WroteShot =>
          /\ ~files[last.url][1].corrupt
          /\ files[last.url][1].data[1].result.screenshot = "absent"
          /\ shots[last.url] = last.payload[1].screenshot

\* C10 witness: the restart after such a set has happened
C10_Restarted == RestartedWithShot

-----------------------------------------------------------------------------
(* Properties of the batch dispatcher *)

Admitted(p) == Range(call[p].urls)

\* the _process_single_url invocations running for a url
Pipelines(url) ==
    Cardinality({p \in Callers : call[p].pc = "gather" /\ url \in call[p].running})
    + Cardinality({t \in ToolCallers : tool[t].pc = "pipeline" /\ tool[t].url = url})
    + orphans[url]

\* C1: when two _batch_process_urls calls overlap and both were given the
\* same url, only the first admits it: for as long as the first call has not
\* ended the url stays in processing_urls, the second call has it neither in
\* filtered_urls nor among its pipeline tasks, and a call that starts then
\* skips it.
C1_OnlyFirstCallAdmits ==
    /\ [](\A p \in Callers :
            InProgress(p) =>
                /\ Admitted(p) \subseteq processing_urls
                /\ call[p].running \subseteq Admitted(p)
                /\ \A q \in Callers \ {p} :
                      InProgress(q) =>
                          /\ Admitted(p) \cap Admitted(q) = {}
                          /\ Admitted(p) \cap call[q].running = {})
    /\ [][\A q \in Callers, urls \in Batches, enter \in {"ok", "raise"} :
            Dispatch(q, urls, enter) =>
                \A p \in Callers \ {q} :
                    InProgress(p) =>
                        /\ Admitted(p) \cap Range(call'[q].urls) = {}
                        /\ Admitted(p) \cap Range(urls) \subseteq call'[q].skipped]_vars

\* C1 witness: a second call is running pipelines after it skipped a url
\* that the first call, still in progress, had admitted
C1_SecondCallSkipped ==
    \E p, q \in Callers :
        /\ p # q
        /\ call[p].pc = "gather"
        /\ call[q].pc = "gather"
        /\ call[q].running # {}
        /\ call[q].skipped \cap Admitted(p) # {}

\* C2: at most one _process_single_url invocation runs for any url, whichever
\* entry point started it.
C2_OnePipelinePerUrl ==
    \A url \in Urls : Pipelines(url) <= 1

\* C3: a url is in processing_urls only while a _batch_process_urls call
\* that admitted it is in progress: a call that has ended, however it ended,
\* has left none of its urls behind, and a later dispatch of a url that no
\* call in progress holds admits it.
C3_CleanupUnconditional ==
    /\ [](\A url \in processing_urls :
            \E p \in Callers : InProgress(p) /\ url \in Admitted(p))
    /\ [][\A p \in Callers, urls \in Batches, enter \in {"ok", "raise"} :
            Dispatch(p, urls, enter) =>
                \A url \in Range(urls) :
                    (\A q \in Callers : InProgress(q) => url \notin Admitted(q))
                        => url \in Range(call'[p].urls)]_vars

\* C3 witness: one call was cancelled and another ended by an exception,
\* both after admitting urls, and processing_urls is empty
C3_EndedByCancelAndRaise ==
    \E p, q \in Callers :
        /\ ~InProgress(p) /\ call[p].exit = "cancelled" /\ call[p].urls # <<>>
        /\ ~InProgress(q) /\ call[q].exit = "raised" /\ call[q].urls # <<>>
        /\ processing_urls = {}


-----------------------------------------------------------------------------
(* Properties of the CacheManager: corrupt files and failed writes *)

IsGarbage(f) == f # <<>> /\ f[1].corrupt

\* C11: after a get for a key whose primary cache file holds bytes that do
\* not deserialize, the garbage file is no longer on disk.
C11_GarbageGoneAfterGet ==
    last.op = "get" => ~IsGarbage(files[last.url])

\* C12: constructing the CacheManager over a directory that holds a corrupt
\* primary file and a valid one completes without raising.
C12_ConstructionSurvivesCorruption ==
    (last.op = "restart" /\ \E k \in Keys : files[k] # <<>> /\ ~files[k][1].corrupt)
        => ~last.raised

FailedWrites == {"fail_open", "fail_dump"}

\* C14: when the disk write of set(key, payload) fails, set raises
\* CacheWriteError, the entry for key is in memory_cache and a get within
\* the TTL returns payload, and the primary file was not written: it is as
\* before the call or truncated.
C14_FailedWriteStaysInMemory ==
    /\ []((last.op = "set" /\ last.raised) =>
            /\ HasKey(memory_cache, last.url)
            /\ EntryAge(last.url) < Ttl =>
                  Get(CacheState, last.url, now).ret = last.payload)
    /\ [][\A u \in Keys, p \in Payloads, o \in FailedWrites :
            CallSet(u, p, o) =>
                /\ last'.raised
                /\ HasKey(memory_cache', u)
                /\ files'[u] = files[u] \/ IsGarbage(files'[u])]_vars

\* C14 witness: a set whose write failed, and a tick later get still
\* returns its payload while no valid primary file holds it
C14_FailedWriteServed ==
    /\ last.op = "set"
    /\ last.raised
    /\ HasKey(memory_cache, last.url)
    /\ EntryAge(last.url) = 1
    /\ Get(CacheState, last.url, now).ret = last.payload
    /\ files[last.url] = <<>> \/ IsGarbage(files[last.url])


-----------------------------------------------------------------------------
(* Properties of one dispatch *)

\* the gathers are over: analysis_results is what will be sent
GatherOver(p) == call[p].pc = "send" \/ (call[p].pc = "aexit" /\ call[p].exc = "none")

ErrorShaped(r) == r.result = "error_msg" /\ r.screenshot = "null"

\* C13: a pipeline that fails returns an error-shaped result and aborts
\* nothing: the other tasks of its window keep running, the next window
\* starts when the window is done, and when the gathers are over there is
\* exactly one result per admitted url, the i-th for the i-th url.
C13_FailureIsolation ==
    /\ [](\A p \in Callers :
            GatherOver(p) =>
                /\ Len(call[p].results) = Len(call[p].urls)
                /\ \A k \in 1..Len(call[p].urls) :
                      /\ call[p].results[k].url = call[p].urls[k]
                      /\ call[p].results[k].result = "error_msg"
                            => ErrorShaped(call[p].results[k]))
    /\ [][\A p \in Callers, url \in Urls :
            TaskReturn(p, url, "error") =>
                /\ call'[p].exc = "none"
                /\ call[p].running # {url} =>
                      /\ call'[p].pc = "gather"
                      /\ call'[p].running = call[p].running \ {url}
                /\ call[p].running = {url} =>
                      IF call[p].i + call[p].batch_size < Len(call[p].urls)
                      THEN call'[p].pc = "gather" /\ call'[p].running # {}
                      ELSE GatherOver(p)']_vars

\* C13 witness: five urls in several windows, the first pipeline failed and
\* the last one succeeded
C13_FailedFirstServedLast ==
    /\ call["d1"].pc = "send"
    /\ Len(call["d1"].urls) = 5
    /\ call["d1"].batch_size < 5
    /\ ErrorShaped(call["d1"].results[1])
    /\ call["d1"].results[5].result = "analysis"


RECURSIVE Flatten(_)
Flatten(ws) == IF ws = <<>> THEN <<>> ELSE Head(ws) \o Flatten(Tail(ws))

\* the k-th of the consecutive windows of c urls, the last the remainder
KthWindow(urls, k, c) ==
    SubSeq(urls, (k - 1) * c + 1, IF k * c < Len(urls) THEN k * c ELSE Len(urls))

\* C15: the pipeline is invoked in consecutive windows of batch_size urls
\* taken in processing order, the last window holding the remainder, and
\* when the gathers are over it has been invoked exactly once for each
\* admitted url.
C15_ConsecutiveWindows ==
    \A p \in Callers :
        InProgress(p) =>
            /\ \A k \in 1..Len(call[p].started) :
                  call[p].started[k] = KthWindow(call[p].urls, k, call[p].batch_size)
            /\ call[p].pc = "gather" =>
                  call[p].running \subseteq Range(call[p].started[Len(call[p].started)])
            /\ GatherOver(p) => Flatten(call[p].started) = call[p].urls

\* C15 witness: five urls with max_concurrency 2 and dynamic concurrency
\* off ran in windows of 2, 2 and 1
C15_TwoTwoOne ==
    /\ cfg.max_concurrency = 2
    /\ ~cfg.dynamic_concurrency
    /\ GatherOver("d1")
    /\ Len(call["d1"].urls) = 5
    /\ [k \in 1..Len(call["d1"].started) |-> Len(call["d1"].started[k])] = <<2, 2, 1>>


\* C16: while a dispatch gathers, the urls it admitted that are in
\* processing_urls are exactly the urls of the window being processed: a url
\* is not a member before its window starts nor after its window is done.
C16_MemberOnlyDuringWindow ==
    \A p \in Callers :
        call[p].pc = "gather" =>
            Admitted(p) \cap processing_urls
                = Range(call[p].started[Len(call[p].started)])

\* C17: while a dispatch gathers, its running pipelines are urls of one
\* window, at most batch_size of them, and batch_size is at most
\* max_concurrency; the next window starts only with the return of the last
\* running task of the window before it.
C17_WindowsInSequence ==
    /\ [](\A p \in Callers :
            call[p].pc = "gather" =>
                /\ \E k \in 1..Len(call[p].urls) :
                      call[p].running
                          \subseteq Range(KthWindow(call[p].urls, k, call[p].batch_size))
                /\ Cardinality(call[p].running) <= call[p].batch_size
                /\ call[p].batch_size <= cfg.max_concurrency)
    /\ [][\A p \in Callers :
            (call[p].pc = "gather" /\ call'[p].pc = "gather" /\ call'[p].i # call[p].i)
                => /\ Cardinality(call[p].running) = 1
                   /\ call[p].running \cap call'[p].running = {}
                   /\ Len(call'[p].results) = call'[p].i]_vars

\* C17 witness: the third window of a dispatch of five urls is running after
\* four results were gathered
C17_ThirdWindow ==
    /\ call["d1"].pc = "gather"
    /\ call["d1"].batch_size = 2
    /\ call["d1"].i = 4
    /\ Len(call["d1"].results) = 4
    /\ call["d1"].running = {call["d1"].urls[5]}

\* C18: a dispatch of urls that are all in processing_urls returns at once
\* with nothing to send, starts no pipeline and leaves processing_urls as it
\* is.
C18_FullyDuplicateBatch ==
    [][\A p \in Callers, urls \in Batches, enter \in {"ok", "raise"} :
          (Dispatch(p, urls, enter) /\ Range(urls) \subseteq processing_urls) =>
              /\ ~InProgress(p)'
              /\ call'[p].exit = "empty"
              /\ call'[p].urls = <<>>
              /\ call'[p].results = <<>>
              /\ call'[p].running = {}
              /\ \A url \in Urls : Pipelines(url)' = Pipelines(url)
              /\ processing_urls' = processing_urls]_vars

\* C18 witness: a call returned empty-handed while the urls it skipped are
\* in processing_urls for another call
C18_ReturnedEmpty ==
    \E p, q \in Callers :
        /\ p # q
        /\ ~InProgress(q)
        /\ call[q].exit = "empty"
        /\ call[q].skipped # {}
        /\ call[q].skipped \subseteq Admitted(p)
        /\ InProgress(p)


-----------------------------------------------------------------------------
(* Properties of the CacheManager: the order of the cleanup *)

-----------------------------------------------------------------------------
(* Properties of one dispatch: the processing order *)

\* the position of a url in a list that holds it
PositionIn(urls, url) == CHOOSE i \in 1..Len(urls) : urls[i] = url

\* C20: with priority scheduling on, the admitted urls are processed in
\* non-increasing priority, urls of equal priority in their input order;
\* with it off they are processed in input order.  When the gathers are
\* over the i-th result is the result of the i-th processed url, whatever
\* order the tasks of a window returned in.
C20_PriorityAndResultOrder ==
    /\ [][\A p \in Callers, urls \in BigBatches :
            Dispatch(p, urls, "ok") =>
                LET input == SelectSeq(urls, LAMBDA u : u \notin processing_urls)
                    order == call'[p].urls
                IN /\ Range(order) = Range(input)
                   /\ Len(order) = Len(input)
                   /\ ~cfg.enable_priority_scheduling => order = input
                   /\ cfg.enable_priority_scheduling =>
                        \A i, j \in 1..Len(order) :
                            i < j =>
                                /\ GetUrlPriority(order[i]) >= GetUrlPriority(order[j])
                                /\ GetUrlPriority(order[i]) = GetUrlPriority(order[j])
                                      => PositionIn(input, order[i])
                                            < PositionIn(input, order[j])]_vars
    /\ [](\A p \in Callers :
            GatherOver(p) =>
                [k \in 1..Len(call[p].results) |-> call[p].results[k].url]
                    = call[p].urls)

\* C20 witness: five urls were reordered by priority, ties in input order,
\* the results are in that order, and the second task of the first window
\* failed while the first succeeded
C20_SortedAndGathered ==
    /\ cfg.enable_priority_scheduling
    /\ GatherOver("d1")
    /\ call["d1"].urls = <<"sina", "bbc", "github", "bilibili", "other">>
    /\ [k \in 1..5 |-> call["d1"].results[k].url] = call["d1"].urls
    /\ call["d1"].results[1].result = "analysis"
    /\ ErrorShaped(call["d1"].results[2])


-----------------------------------------------------------------------------
(* Properties of one dispatch: the batch size *)

-----------------------------------------------------------------------------
(* Properties of the CacheManager: the files of the cache directory *)

\* the primary cache files of the directory
PrimaryFiles == {k \in Keys : files[k] # <<>>}

\* C22: after delete(url), neither the primary file nor the screenshot
\* side-file of url is on disk, whether or not url was in memory_cache.
C22_DeleteRemovesFiles ==
    last.op = "delete" => files[last.url] = <<>> /\ shots[last.url] = NoFile

\* C23: after a set that returned normally with a result that holds no bytes
\* screenshot, no screenshot side-file of the url is on disk.
C23_NoSideFileWithoutBytes ==
    (/\ last.op = "set"
     /\ ~last.raised
     /\ ~IsBytes(last.payload[1].screenshot))
        => shots[last.url] = NoFile

\* C24: after a set or set_with_content_hash that returned normally, the
\* directory holds at most max_size primary cache files.
C24_DiskBoundedByCapacity ==
    (last.op \in SetOps /\ ~last.raised) => Cardinality(PrimaryFiles) <= MaxSize


-----------------------------------------------------------------------------
(* Properties of the CacheManager: capacity in every state *)

\* C28: in every state of a constructed CacheManager, right after
\* construction and after every operation, memory_cache holds at most
\* max_size entries.
C28_CapacityAlways ==
    mgr = "up" => Len(memory_cache) <= MaxSize


-----------------------------------------------------------------------------
(* Properties of the CacheManager: clear *)

\* a CacheManager constructed over the directory as it is now starts empty
StartsEmpty ==
    \A order \in SortedCacheFiles(CacheState), preload \in BOOLEAN :
        LET r == Construct(files, shots, order, preload)
        IN ~r.raised /\ r.st.memory_cache = <<>> /\ r.st.preload_urls = {}

\* C25: after clear has returned, memory_cache, content_hash_map and
\* preload_urls are empty, get and get_by_content_hash return None for every
\* argument, get_stats reports total 0, no primary file and no side-file is
\* left in the directory, and a CacheManager constructed then starts empty.
C25_ClearEmptiesEverything ==
    last.op = "clear" =>
        /\ memory_cache = <<>>
        /\ \A h \in Hashes : content_hash_map[h] = NoKey
        /\ preload_urls = {}
        /\ \A u \in Keys : Get(CacheState, u, now).ret = <<>>
        /\ \A h \in Hashes : GetByContentHash(CacheState, h, now).ret = <<>>
        /\ GetStats(CacheState, now).total = 0
        /\ PrimaryFiles = {}
        /\ \A k \in Keys : shots[k] = NoFile
        /\ StartsEmpty

\* clear has just returned on a constructed CacheManager
C25_Cleared ==
    /\ mgr = "up"
    /\ last.op = "clear"
    /\ GetStats(CacheState, now) = [total |-> 0, valid |-> 0, expired |-> 0]


-----------------------------------------------------------------------------
(* Properties of the dispatcher: what the end of a call removes *)

\* C27: the step in which a _batch_process_urls call ends removes from
\* processing_urls only urls of that call's filtered_urls: every url that
\* another call in progress admitted is still in processing_urls after the
\* step, also when the ending call had skipped that url as a duplicate.
C27_RemovesOnlyOwn ==
    [][\A p \in Callers :
          (~InProgress(p)' /\ call'[p] # call[p]) =>
              /\ processing_urls \ processing_urls' \subseteq Range(call'[p].urls)
              /\ \A q \in Callers \ {p} :
                    InProgress(q) =>
                        /\ InProgress(q)'
                        /\ Admitted(q)' = Admitted(q)
                        /\ Admitted(q) \subseteq processing_urls']_vars

\* C27 witness: a call that admitted urls of its own and skipped a url of
\* another call has ended, and the other call, in progress, has all its urls
\* in processing_urls
C27_EndedBesideAnother ==
    \E p, q \in Callers :
        /\ p # q
        /\ ~InProgress(p)
        /\ call[p].exit \in {"returned", "raised", "cancelled"}
        /\ call[p].urls # <<>>
        /\ call[p].skipped \cap Admitted(q) # {}
        /\ InProgress(q)
        /\ Admitted(q) \subseteq processing_urls
        /\ Admitted(p) \cap processing_urls = {}


-----------------------------------------------------------------------------
(* Properties of the CacheManager: the TTL across a restart *)

\* a CacheManager has just been constructed over the directory
Reloaded == last.op = "restart" /\ ~last.raised

\* C30: the primary file a set writes carries the time of that set, and an
\* entry loaded from disk has the timestamp of its file: a step that ends
\* with a CacheManager just constructed gives no entry a later timestamp than
\* it had, and for a loaded entry at or past the TTL get returns None and
\* removes the entry and both its files.
C30_TtlSurvivesRestart ==
    /\ [](Reloaded =>
            \A k \in KeysOf(memory_cache) :
                /\ files[k] # <<>>
                /\ ~files[k][1].corrupt
                /\ Entry(memory_cache, k).timestamp
                       = files[k][1].data[1].timestamp
                /\ EntryAge(k) >= Ttl =>
                      LET r == Get(CacheState, k, now)
                      IN /\ r.ret = <<>>
                         /\ ~HasKey(r.st.memory_cache, k)
                         /\ r.st.files[k] = <<>>
                         /\ r.st.shots[k] = NoFile)
    /\ [][\A u \in Keys, p \in Payloads :
            (CallSet(u, p, "ok") /\ files'[u] # <<>>) =>
                files'[u][1].data[1].timestamp = now]_vars
    /\ [][Reloaded' =>
            /\ \A k \in KeysOf(memory_cache') :
                  /\ files[k] # <<>>
                  /\ ~files[k][1].corrupt
                  /\ Entry(memory_cache', k).timestamp
                         = files[k][1].data[1].timestamp
            /\ \A k \in KeysOf(memory_cache) \cap KeysOf(memory_cache') :
                  Entry(memory_cache', k).timestamp
                      <= Entry(memory_cache, k).timestamp]_vars

\* C30 witness: a CacheManager constructed a full TTL after the set of a url
\* has loaded that url's entry
C30_ReloadedExpired ==
    /\ Reloaded
    /\ last.url # NoKey
    /\ HasKey(memory_cache, last.url)
    /\ Entry(memory_cache, last.url).result = last.payload[1]
    /\ EntryAge(last.url) >= Ttl


-----------------------------------------------------------------------------
(* Properties of the pipeline and the cache *)

\* the cache key of a page url
KeyOf(url) == UrlKey(NormalizeUrl(url, enable_unified_domain))

\* the cache is enabled and holds an unexpired entry for the key of url
Cached(url) ==
    /\ enable_cache
    /\ HasKey(memory_cache, KeyOf(url))
    /\ Fresh(Entry(memory_cache, KeyOf(url)).timestamp, now)

C29_ErrorLeavesCacheAlone ==
    \A w \in Workers :
        (pipe[w].pc = "idle" /\ pipe[w].ret = <<ErrorResult>>)
            => ~pipe[w].changed

====
